---- MODULE Spec2Model ----
(***************************************************************************)
(* Model of the Canadian Tire stock checker (src/main.ts).                 *)
(*                                                                         *)
(* The process loads config.json, runs one check-and-notify cycle, then    *)
(* registers a repeating timer whose callback starts further cycles.       *)
(* Every `await` of the source is a suspension point: the pending          *)
(* operation settles in a later step, and timer callbacks may run in       *)
(* between.  Exceptions are values that travel outwards through the        *)
(* try/catch blocks of the source.                                         *)
(*                                                                         *)
(* JavaScript `undefined` is the empty tuple, a present value v is <<v>>.  *)
(*                                                                         *)
(* src/unnamed/part_000 is an earlier revision of the same program: its    *)
(* loadConfig, checkStock, runCheck and main are identical, and its        *)
(* sendNotification runs the mail command inline instead of calling        *)
(* sendSmtpEmail.  The model follows src/main.ts.                          *)
(***************************************************************************)
EXTENDS Integers, Sequences, FiniteSets

\* ------------------------------------------------------------------ bounds
\* Cycles ever started in one run (the initial one plus timer firings).
MaxCycles == 3
\* Longest response array of the availability endpoint.
MaxRecords == 2

\* ------------------------------------------------------------- JS values
None == << >>
Some(v) == <<v>>
IsSome(o) == o # << >>
Val(o) == o[1]

\* JavaScript truthiness of an optional string ("" is falsy).
TruthyStr(o) == IsSome(o) /\ Val(o) # ""
\* JavaScript truthiness of an optional number (0 is falsy).
TruthyNum(o) == IsSome(o) /\ Val(o) # 0

\* ------------------------------------------------------------ config.json
EmailConsole ==
  [provider |-> Some("console"), host |-> None, port |-> None,
   fromEmail |-> Some("alerts@example.com"), fromName |-> None]
EmailSmtp ==
  [provider |-> Some("smtp"), host |-> Some("smtp.example.com"), port |-> Some(587),
   fromEmail |-> Some("alerts@example.com"), fromName |-> Some("Stock Bot")]

DocConsole ==
  [email |-> Some("me@example.com"), checkIntervalMinutes |-> Some(60),
   stores |-> Some(<<"0459", "0150">>), sku |-> Some("1502321"),
   emailConfig |-> Some(EmailConsole)]
DocSmtp == [DocConsole EXCEPT !.stores = Some(<<"0459">>), !.emailConfig = Some(EmailSmtp)]
DocSmtpNoHost == [DocSmtp EXCEPT !.emailConfig = Some([EmailSmtp EXCEPT !.host = None])]
DocSmtpNoPort == [DocSmtp EXCEPT !.emailConfig = Some([EmailSmtp EXCEPT !.port = None])]
DocSmtpPortZero == [DocSmtp EXCEPT !.emailConfig = Some([EmailSmtp EXCEPT !.port = Some(0)])]
DocNoEmail == [DocConsole EXCEPT !.email = None]
DocNoInterval == [DocConsole EXCEPT !.checkIntervalMinutes = None]
DocNoStores == [DocConsole EXCEPT !.stores = None]
DocNoSku == [DocConsole EXCEPT !.sku = None, !.stores = Some(<<"0150", "0459", "0150">>)]
DocNoEmailConfig == [DocConsole EXCEPT !.emailConfig = None]

\* Parsed documents config.json may hold (a JSON object with some fields absent).
Docs ==
  {DocConsole, DocSmtp, DocSmtpNoHost, DocSmtpNoPort, DocSmtpPortZero,
   DocNoEmail, DocNoInterval, DocNoStores, DocNoSku, DocNoEmailConfig}

\* What Deno.readTextFile + JSON.parse meet at ./config.json.
ConfigFiles ==
  {[kind |-> "missing", doc |-> None],
   [kind |-> "unreadable", doc |-> None],
   [kind |-> "invalidJSON", doc |-> None],
   [kind |-> "jsonNull", doc |-> None]}
  \cup {[kind |-> "json", doc |-> Some(d)] : d \in Docs}

\* ------------------------------------------------- stocktrack.ca response
ItemInStock ==
  [Store |-> "0459", Quantity |-> 3, Description |-> "Widget", Price |-> 1999,
   Location |-> Some([Aisle |-> "A12"])]
ItemOutOfStock ==
  [Store |-> "0150", Quantity |-> 0, Description |-> "Gadget", Price |-> 1999,
   Location |-> None]
ItemUnrequested ==
  [Store |-> "9999", Quantity |-> 1, Description |-> "", Price |-> 0,
   Location |-> None]
Items == {ItemInStock, ItemOutOfStock, ItemUnrequested}

\* Every response array of at most MaxRecords records.
Bodies == UNION {[1..n -> Items] : n \in 0..MaxRecords}

\* Responses the process model draws from: no data, all out of stock, stock found.
SampleBodies ==
  {b \in {<< >>, <<ItemOutOfStock>>, <<ItemInStock>>, <<ItemOutOfStock, ItemInStock>>} :
     Len(b) <= MaxRecords}

\* -------------------------------------------------------------- variables
VARIABLES
  configFile,       \* what is at ./config.json
  config,           \* value returned by loadConfig (None before / without it)
  mainPc,           \* position of main: "init", "initial", "running", "exited"
  exitCode,         \* None while the process lives, Some(code) once it exited
  timerRegistered,  \* setInterval has been called
  cycles,           \* one record per runCheck invocation
  csBody,           \* checkStock in isolation: the decoded response
  csResult          \* checkStock in isolation: the returned StockResponse

vars ==
  <<configFile, config, mainPc, exitCode, timerRegistered, cycles, csBody, csResult>>

Cycles == 1..MaxCycles

\* --------------------------------------------------------------- loadConfig
loadConfigDefault(file) ==
  IF file.kind \in {"json", "jsonNull"}
  THEN [ok |-> TRUE, value |-> file.doc]
  ELSE [ok |-> TRUE, value |-> Some(DocConsole)]

\* readTextFile and JSON.parse inside one try; any failure is rethrown.  The
\* parsed value is returned as it is (`as Config` checks nothing at run time).
loadConfig(file) ==
  IF file.kind \in {"json", "jsonNull"}
  THEN [ok |-> TRUE, value |-> file.doc]
  ELSE [ok |-> FALSE, value |-> None]

\* --------------------------------------------------------------- checkStock
InStockOrZero(s) == s.quantity >= 0

\* The predicate of `stores.filter(...)` and `stores.some(...)`.
InStock(s) == s.quantity > 0

ProductNameLast(jsonData) == jsonData[Len(jsonData)].Description

\* jsonData[0].Description || ""
ProductName(jsonData) ==
  IF jsonData[1].Description # "" THEN jsonData[1].Description ELSE ""

\* One StoreStock per response record.
ItemToStoreStock(item) ==
  [store |-> item.Store,
   quantity |-> item.Quantity,
   name |-> Some(<<"Canadian Tire", item.Store>>),
   location |-> IF IsSome(item.Location) THEN Some(Val(item.Location).Aisle) ELSE None,
   price |-> Some(item.Price)]

NoFallbackStocks(stores) == << >>

\* "If no data is returned, assume all stores are out of stock".
EmptyResponseStocks(stores) ==
  [i \in 1..Len(stores) |->
     [store |-> stores[i], quantity |-> 0, name |-> None, location |-> None, price |-> None]]

\* The part of checkStock after `await response.json()`.
checkStock(cfg, jsonData) ==
  IF Len(jsonData) > 0
  THEN [stores |-> [i \in 1..Len(jsonData) |-> ItemToStoreStock(jsonData[i])],
        sku |-> cfg.sku,
        name |-> ProductName(jsonData)]
  ELSE [stores |-> EmptyResponseStocks(Val(cfg.stores)),
        sku |-> cfg.sku,
        name |-> ""]

\* checkStock's catch block: every failure is rethrown as one error.
CheckStockCatch(e) == "StockCheckError"

\* ------------------------------------------- checkStock in isolation (spec)
\* Configurations main lets through to runCheck: stores is present.
RunnableDocs == {d \in Docs : IsSome(d.stores)}

NoCycles ==
  [c \in Cycles |->
     [pc |-> "idle", http |-> 0, stockInfo |-> None, notifyResult |-> "notCalled",
      tempFiles |-> 0, spawns |-> 0, consoleNotes |-> 0, pending |-> "none",
      outcome |-> "none", escaped |-> "none"]]

InitCheckStock ==
  /\ configFile \in {f \in ConfigFiles : f.kind = "json" /\ Val(f.doc) \in RunnableDocs}
  /\ config = None
  /\ mainPc = "init"
  /\ exitCode = None
  /\ timerRegistered = FALSE
  /\ cycles = NoCycles
  /\ csBody \in Bodies
  /\ csResult = None

ApplyCheckStock ==
  /\ csResult = None
  /\ csResult' = Some(checkStock(Val(configFile.doc), csBody))
  /\ UNCHANGED <<configFile, config, mainPc, exitCode, timerRegistered, cycles, csBody>>

NextCheckStock == ApplyCheckStock

SpecCheckStock == InitCheckStock /\ [][NextCheckStock]_vars

\* ---------------------------------------------------------- sendNotification
SmtpHostMissing(ec) == ~TruthyStr(ec.host)

\* `!host || !port`
SmtpConfigMissing(ec) == ~TruthyStr(ec.host) \/ ~TruthyNum(ec.port)

\* storesWithStock = stores.filter(store => store.quantity > 0)
storesWithStock(stockInfo) == SelectSeq(stockInfo.stores, InStock)

\* sendNotification from its entry to its first await or its return:
\*   "skip"             no store with stock, early return
\*   "TypeError"        emailConfig is undefined, reading .provider throws
\*   "EmailConfigError" smtp selected, host or port falsy
\*   "smtp"             sendSmtpEmail is called
\*   "console"          the notification is written to the log
sendNotification(cfg, stockInfo) ==
  IF Len(storesWithStock(stockInfo)) = 0 THEN "skip"
  ELSE IF ~IsSome(cfg.emailConfig) THEN "TypeError"
  ELSE IF Val(cfg.emailConfig).provider = Some("smtp")
       THEN IF SmtpConfigMissing(Val(cfg.emailConfig)) THEN "EmailConfigError" ELSE "smtp"
       ELSE "console"

\* The inner catch around sendSmtpEmail: logs, rethrows "Failed to send email".
SmtpCatch(e) == "EmailDeliveryError"

SendNotificationRethrow(e) == e

\* The outer catch of sendNotification: logs, raises nothing.
SendNotificationCatch(e) == "none"

\* ------------------------------------------------------------------ runCheck
RunCheckRethrow(e) == e

\* The catch of runCheck: logs, raises nothing.
RunCheckCatch(e) == "none"

hasStockOnChange(stockInfo) ==
  /\ \E i \in 1..Len(stockInfo.stores) : InStock(stockInfo.stores[i])
  /\ \A d \in Cycles :
       ~(/\ IsSome(cycles[d].stockInfo)
         /\ \E i \in 1..Len(Val(cycles[d].stockInfo).stores) :
              InStock(Val(cycles[d].stockInfo).stores[i]))

\* hasStock = stockInfo.stores.some(store => store.quantity > 0)
hasStock(stockInfo) == \E i \in 1..Len(stockInfo.stores) : InStock(stockInfo.stores[i])

\* runCheck ends with exception e thrown inside its try block.
RunCheckFails(cy, e) ==
  [cy EXCEPT !.pc = "done", !.outcome = e, !.pending = "none", !.escaped = RunCheckCatch(e)]

\* sendNotification ends; e is the exception thrown inside its try block, or
\* "none" when the block completed, and then ok names what was done.
NotifyEnds(cy, e, ok) ==
  LET out == IF e = "none" THEN "none" ELSE SendNotificationCatch(e)
  IN IF out = "none"
     THEN [cy EXCEPT !.pc = "done", !.notifyResult = "returned", !.pending = "none",
                     !.outcome = IF e = "none" THEN ok ELSE e]
     ELSE RunCheckFails([cy EXCEPT !.notifyResult = "raised"], out)

RetryFetch(cy, e) == [cy EXCEPT !.http = @ + 1]

\* checkStock failed with e: its catch rethrows, runCheck's catch ends the cycle.
CheckFails(cy, e) == RunCheckFails(cy, CheckStockCatch(e))

\* runCheck after `await checkStock(config)` returned stockInfo, up to the
\* first await of sendSmtpEmail or to the end of the cycle.
RunCheckResume(cfg, cy, stockInfo) ==
  LET withInfo == [cy EXCEPT !.stockInfo = Some(stockInfo)]
      decision == sendNotification(cfg, stockInfo)
  IN IF ~hasStock(stockInfo)
     THEN [withInfo EXCEPT !.pc = "done", !.outcome = "noStock"]
     ELSE CASE decision = "skip" -> NotifyEnds(withInfo, "none", "noStock")
            [] decision = "console" ->
                 NotifyEnds([withInfo EXCEPT !.consoleNotes = @ + 1], "none", "notified")
            [] decision = "smtp" ->
                 [withInfo EXCEPT !.pc = "mktemp", !.notifyResult = "pending"]
            [] OTHER -> NotifyEnds(withInfo, decision, "none")

\* ---------------------------------------------------------------- the process
Started == Cardinality({c \in Cycles : cycles[c].pc # "idle"})
InFlight == {c \in Cycles : cycles[c].pc \notin {"idle", "done"}}

\* runCheck(config) up to `await fetch(url, { headers })`: the request is sent.
StartCycle(c) ==
  [cycles EXCEPT ![c] = [@ EXCEPT !.pc = "fetch", !.http = @ + 1]]

\* A step of cycle c that leaves it as cy.  A rejected promise of a timer
\* callback is an unhandled rejection: the runtime ends the process.
Commit(c, cy) ==
  /\ cycles' = [cycles EXCEPT ![c] = cy]
  /\ IF cy.pc = "done" /\ cy.escaped # "none" /\ c > 1
     THEN mainPc' = "exited" /\ exitCode' = Some(1)
     ELSE UNCHANGED <<mainPc, exitCode>>
  /\ UNCHANGED <<configFile, config, timerRegistered, csBody, csResult>>

InitialCheckNotAwaited == FALSE

\* `await runCheck(config)` precedes setInterval.
InitialCheckAwaited == TRUE

Init ==
  /\ configFile \in ConfigFiles
  /\ config = None
  /\ mainPc = "init"
  /\ exitCode = None
  /\ timerRegistered = FALSE
  /\ cycles = NoCycles
  /\ csBody = << >>
  /\ csResult = None

\* main() from its start to `await runCheck(config)`.
Main ==
  /\ mainPc = "init"
  /\ LET r == loadConfig(configFile)
         \* config.sku and config.stores.length are read for the start-up log
         usable == r.ok /\ IsSome(r.value) /\ IsSome(Val(r.value).stores)
     IN /\ config' = IF r.ok THEN r.value ELSE None
        /\ IF usable
           THEN /\ cycles' = StartCycle(1)
                /\ exitCode' = None
                /\ IF InitialCheckAwaited
                   THEN mainPc' = "initial" /\ timerRegistered' = FALSE
                   ELSE mainPc' = "running" /\ timerRegistered' = TRUE
           ELSE /\ mainPc' = "exited"
                /\ exitCode' = Some(1)
                /\ UNCHANGED <<cycles, timerRegistered>>
  /\ UNCHANGED <<configFile, csBody, csResult>>

\* main() after the initial runCheck settled: setInterval, or the catch.
MainResume ==
  /\ mainPc = "initial"
  /\ cycles[1].pc = "done"
  /\ IF cycles[1].escaped = "none"
     THEN mainPc' = "running" /\ timerRegistered' = TRUE /\ exitCode' = None
     ELSE mainPc' = "exited" /\ timerRegistered' = FALSE /\ exitCode' = Some(1)
  /\ UNCHANGED <<configFile, config, cycles, csBody, csResult>>

\* The interval elapses: the callback calls runCheck(config) and does not wait.
TimerFire ==
  /\ mainPc = "running"
  /\ timerRegistered
  /\ \E c \in Cycles :
       /\ cycles[c].pc = "idle"
       /\ \A d \in 1..(c - 1) : cycles[d].pc # "idle"
       /\ cycles' = StartCycle(c)
  /\ UNCHANGED <<configFile, config, mainPc, exitCode, timerRegistered, csBody, csResult>>

FetchResults == {"NetworkError", "HttpError", "ok"}

\* `await fetch(...)` settles: rejected, a non-success status, or a 2xx response.
FetchSettles(c) ==
  /\ mainPc \in {"initial", "running"}
  /\ cycles[c].pc = "fetch"
  /\ \E res \in FetchResults :
       Commit(c, IF res = "ok" THEN [cycles[c] EXCEPT !.pc = "json"]
                 ELSE CheckFails(cycles[c], res))

\* `await response.json()` settles: a decode failure or the decoded array.
JsonSettles(c) ==
  /\ mainPc \in {"initial", "running"}
  /\ cycles[c].pc = "json"
  /\ \/ Commit(c, CheckFails(cycles[c], "DecodeError"))
     \/ \E body \in SampleBodies :
          Commit(c, RunCheckResume(Val(config), cycles[c], checkStock(Val(config), body)))

\* ------------------------------------------------------------- sendSmtpEmail
\* `await Deno.makeTempFile()` settles.  It is outside the try/finally, so a
\* failure leaves sendSmtpEmail at once and reaches the inner catch.
MakeTempFileSettles(c) ==
  /\ mainPc \in {"initial", "running"}
  /\ cycles[c].pc = "mktemp"
  /\ \/ Commit(c, [cycles[c] EXCEPT !.pc = "write", !.tempFiles = @ + 1])
     \/ Commit(c, NotifyEnds(cycles[c], SmtpCatch("TempFileError"), "none"))

\* `await Deno.writeTextFile(...)` settles; on success the mail command is
\* spawned in the same turn, which throws when the command cannot be started.
WriteTextFileSettles(c) ==
  /\ mainPc \in {"initial", "running"}
  /\ cycles[c].pc = "write"
  /\ \/ Commit(c, [cycles[c] EXCEPT !.pc = "remove", !.pending = "WriteError"])
     \/ Commit(c, [cycles[c] EXCEPT !.pc = "remove", !.spawns = @ + 1,
                                    !.pending = "SpawnError"])
     \/ Commit(c, [cycles[c] EXCEPT !.pc = "mail", !.spawns = @ + 1])

MailResults == {"PipeError", "MailExitError", "none"}

\* The content is piped to the mail process and `await mailProcess.output()`
\* settles: a pipe failure, a non-zero exit code, or exit code 0.
MailSettles(c) ==
  /\ mainPc \in {"initial", "running"}
  /\ cycles[c].pc = "mail"
  /\ \E res \in MailResults :
       Commit(c, [cycles[c] EXCEPT !.pc = "remove", !.pending = res])

\* finally: `await Deno.remove(tempFile)` settles (its own failure is caught and
\* logged), then the pending exception, if any, continues to the inner catch.
RemoveSettles(c) ==
  /\ mainPc \in {"initial", "running"}
  /\ cycles[c].pc = "remove"
  /\ Commit(c, IF cycles[c].pending = "none"
               THEN NotifyEnds(cycles[c], "none", "sent")
               ELSE NotifyEnds(cycles[c], SmtpCatch(cycles[c].pending), "none"))

Next ==
  \/ Main
  \/ MainResume
  \/ TimerFire
  \/ \E c \in Cycles :
       \/ FetchSettles(c)
       \/ JsonSettles(c)
       \/ MakeTempFileSettles(c)
       \/ WriteTextFileSettles(c)
       \/ MailSettles(c)
       \/ RemoveSettles(c)

Spec == Init /\ [][Next]_vars

\* ------------------------------------------------------------------- claims
SmtpStages == {"mktemp", "write", "mail", "remove"}
QuantityPositive(o) == IsSome(o) /\ \E i \in 1..Len(Val(o).stores) : Val(o).stores[i].quantity > 0
LoadFails(file) == file.kind \in {"missing", "unreadable", "invalidJSON"}

\* C1: when config.json is missing, unreadable or not valid JSON the process
\* exits with status 1; no cycle ever starts (no HTTP request, no delivery
\* action) and the repeating timer is never registered.
C1_LoadFailureIsFatal ==
  LoadFails(configFile) =>
    /\ mainPc \in {"init", "exited"}
    /\ mainPc = "init" => (exitCode = None /\ ENABLED Main)
    /\ mainPc = "exited" => exitCode = Some(1)
    /\ ~timerRegistered
    /\ config = None
    /\ cycles = NoCycles

C1_Witness == LoadFails(configFile) /\ mainPc = "exited" /\ exitCode = Some(1)

\* C2: once the first cycle has begun, no cycle outcome ends the process: no
\* exception leaves runCheck, a failed cycle is over (done), the timer gets
\* registered and keeps firing, and every cycle it starts is a fresh one that
\* sends its request.
C2_CycleFailuresNeverStop ==
  Started >= 1 =>
    /\ mainPc \in {"initial", "running"}
    /\ exitCode = None
    /\ \A c \in Cycles :
         /\ cycles[c].escaped = "none"
         /\ cycles[c].outcome # "none" => cycles[c].pc = "done"
         /\ cycles[c].pc = "fetch" => cycles[c] = [NoCycles[c] EXCEPT !.pc = "fetch", !.http = 1]
    /\ (mainPc = "initial" /\ cycles[1].pc = "done") => ENABLED MainResume
    /\ (mainPc = "running" /\ Started < MaxCycles) => ENABLED TimerFire

C2_Witness ==
  /\ cycles[1].outcome = "StockCheckError"
  /\ cycles[2].outcome = "EmailDeliveryError"
  /\ cycles[3].pc = "fetch"

DeliveryActed(cy) ==
  \/ cy.consoleNotes > 0 \/ cy.spawns > 0 \/ cy.tempFiles > 0
  \/ cy.pc \in SmtpStages
  \/ cy.notifyResult = "pending"
  \/ cy.outcome \in {"notified", "sent", "EmailDeliveryError", "EmailConfigError"}

\* C3: a cycle performs a delivery action (console notification, temp file,
\* mail command) or ends in a delivery error only if its snapshot has a store
\* with quantity > 0; failed checks and all-zero snapshots deliver nothing.
C3_DeliveryOnlyWithStock ==
  \A c \in Cycles : DeliveryActed(cycles[c]) => QuantityPositive(cycles[c].stockInfo)

C3_Witness ==
  \E c, d \in Cycles :
    /\ cycles[c].outcome = "noStock"
    /\ Len(Val(cycles[c].stockInfo).stores) > 0
    /\ ~DeliveryActed(cycles[c])
    /\ cycles[d].outcome = "sent"

\* C4: for an empty response array checkStock returns one StoreStock per
\* configured store identifier, in order, each with quantity 0 and with name,
\* location and price unset.
C4_EmptyResponseAllZero ==
  (IsSome(csResult) /\ Len(csBody) = 0) =>
    LET r == Val(csResult)
        st == Val(Val(configFile.doc).stores)
    IN /\ Len(r.stores) = Len(st)
       /\ \A i \in 1..Len(st) :
            r.stores[i] =
              [store |-> st[i], quantity |-> 0, name |-> None, location |-> None,
               price |-> None]

C4_Witness ==
  /\ IsSome(csResult)
  /\ Len(csBody) = 0
  /\ Len(Val(csResult).stores) = 3

\* C5: for a response array of N >= 1 records checkStock returns exactly N
\* entries, the i-th with the i-th record's store identifier and quantity, and
\* the product name is the first record's description; nothing is added for a
\* configured store the response omits.
C5_EntriesFollowResponse ==
  (IsSome(csResult) /\ Len(csBody) >= 1) =>
    LET r == Val(csResult)
    IN /\ Len(r.stores) = Len(csBody)
       /\ \A i \in 1..Len(csBody) :
            /\ r.stores[i].store = csBody[i].Store
            /\ r.stores[i].quantity = csBody[i].Quantity
       /\ r.name = csBody[1].Description

C5_Witness ==
  /\ IsSome(csResult)
  /\ Len(csBody) = 2
  /\ csBody[1] = ItemInStock
  /\ csBody[2] = ItemUnrequested
  /\ Val(configFile.doc) = DocConsole
  /\ Val(csResult).name = "Widget"

\* C6: sendNotification never raises to runCheck: whatever the delivery step
\* does, a cycle that called it sees it return.
C6_NotifierNeverRaises ==
  \A c \in Cycles :
    /\ cycles[c].notifyResult # "raised"
    /\ (cycles[c].pc = "done" /\ cycles[c].notifyResult # "notCalled")
         => cycles[c].notifyResult = "returned"

C6_Witness ==
  \E c, d \in Cycles :
    /\ cycles[c].outcome = "EmailDeliveryError"
    /\ cycles[c].spawns = 1
    /\ cycles[c].notifyResult = "returned"
    /\ cycles[d].outcome = "EmailDeliveryError"
    /\ cycles[d].tempFiles = 0
    /\ cycles[d].notifyResult = "returned"

SmtpFieldAbsent ==
  /\ IsSome(config)
  /\ IsSome(Val(config).emailConfig)
  /\ Val(Val(config).emailConfig).provider = Some("smtp")
  /\ \/ Val(Val(config).emailConfig).host = None
     \/ Val(Val(config).emailConfig).port = None

\* C7: in smtp mode with host or port absent, a cycle that found stock ends
\* with EmailConfigError, and no cycle writes a temp file or spawns the mail
\* command.
C7_MissingSmtpFieldNoExternalCall ==
  SmtpFieldAbsent =>
    \A c \in Cycles :
      /\ cycles[c].tempFiles = 0
      /\ cycles[c].spawns = 0
      /\ cycles[c].pc \notin SmtpStages
      /\ (cycles[c].pc = "done" /\ QuantityPositive(cycles[c].stockInfo))
           => cycles[c].outcome = "EmailConfigError"

C7_Witness ==
  /\ config = Some(DocSmtpNoPort)
  /\ \E c \in Cycles : cycles[c].outcome = "EmailConfigError"

\* C8: a cycle sends exactly one HTTP request once started and makes at most
\* one delivery attempt (one temp file, one mail command or one console
\* notification), whether they succeed or fail.
C8_NoRetryWithinCycle ==
  \A c \in Cycles :
    /\ cycles[c].http = IF cycles[c].pc = "idle" THEN 0 ELSE 1
    /\ cycles[c].tempFiles <= 1
    /\ cycles[c].spawns + cycles[c].consoleNotes <= 1

C8_Witness ==
  \E c, d \in Cycles :
    /\ cycles[c].outcome = "StockCheckError"
    /\ cycles[c].http = 1
    /\ cycles[d].outcome = "EmailDeliveryError"
    /\ cycles[d].spawns = 1

Incomplete(d) ==
  \/ d.email = None
  \/ d.checkIntervalMinutes = None
  \/ d.stores = None
  \/ d.sku = None
  \/ d.emailConfig = None

\* C9 (as claimed): a parsed document that lacks a required field makes
\* loadConfig fail, so no configuration value is returned and no cycle runs.
C9_IncompleteConfigRejected ==
  (configFile.kind = "json" /\ Incomplete(Val(configFile.doc))) =>
    (config = None /\ Started = 0)

\* C10 (as claimed): at most one cycle is in flight at any time.
C10_AtMostOneInFlight == Cardinality(InFlight) <= 1

\* C10 (amended): until setInterval is called only the initial cycle can be in
\* flight, and setInterval is called only after the initial cycle is done;
\* timer-driven cycles are not kept apart.
C10_InitialCycleExclusive ==
  /\ ~timerRegistered => InFlight \subseteq {1}
  /\ timerRegistered => cycles[1].pc = "done"

C10_Witness == ~timerRegistered /\ cycles[1].pc = "mail"

\* ------------------------------------------------------------------ liveness
\* What the runtime guarantees: main's continuations run, the interval
\* elapses, and the local file operations of sendSmtpEmail settle.  The
\* source passes no timeout or abort signal to fetch, to response.json() or to
\* mailProcess.output(), so nothing obliges FetchSettles, JsonSettles or
\* MailSettles to happen: their settling is up to the endpoint and the mail
\* command.
Fairness ==
  /\ WF_vars(Main)
  /\ WF_vars(MainResume)
  /\ WF_vars(TimerFire)
  /\ \A c \in Cycles :
       /\ WF_vars(MakeTempFileSettles(c))
       /\ WF_vars(WriteTextFileSettles(c))
       /\ WF_vars(RemoveSettles(c))

SpecLive == Init /\ [][Next]_vars /\ Fairness

\* C11 (as claimed): every cycle that starts eventually finishes, whatever the
\* endpoint and the mail command do, and so the initial cycle finishes and the
\* repeating timer is eventually registered.
C11_EveryCycleFinishes ==
  /\ \A c \in Cycles : (cycles[c].pc \notin {"idle", "done"}) ~> (cycles[c].pc = "done")
  /\ (mainPc = "initial") ~> timerRegistered

Attempted(cy) == cy.notifyResult # "notCalled"
DeliveryStarted(cy) ==
  \/ cy.consoleNotes = 1
  \/ cy.pc \in SmtpStages
  \/ cy.outcome \in {"sent", "EmailDeliveryError"}
Deliverable(cfg) ==
  /\ IsSome(cfg.emailConfig)
  /\ \/ Val(cfg.emailConfig).provider # Some("smtp")
     \/ TruthyStr(Val(cfg.emailConfig).host) /\ TruthyNum(Val(cfg.emailConfig).port)

\* C12: the decision to notify uses only the cycle's own snapshot: in every
\* reachable state, whatever earlier cycles observed, delivered or failed at,
\* a cycle whose check succeeded has called sendNotification exactly when its
\* snapshot has a store with quantity > 0 (and with a usable delivery
\* configuration has started the delivery exactly then); a cycle whose check
\* did not succeed has not.
C12_NotifyIsMemoryless ==
  \A c \in Cycles :
    /\ IsSome(cycles[c].stockInfo) =>
         /\ QuantityPositive(cycles[c].stockInfo) <=> Attempted(cycles[c])
         /\ Deliverable(Val(config)) =>
              (QuantityPositive(cycles[c].stockInfo) <=> DeliveryStarted(cycles[c]))
    /\ ~IsSome(cycles[c].stockInfo) => ~Attempted(cycles[c])

C12_Witness ==
  /\ cycles[1].outcome = "sent"
  /\ cycles[2].outcome = "EmailDeliveryError"
  /\ cycles[3].outcome = "sent"
  /\ cycles[2].stockInfo = cycles[1].stockInfo
  /\ cycles[3].stockInfo = cycles[1].stockInfo
  /\ Val(cycles[1].stockInfo).stores[1].store = "0459"
  /\ Val(cycles[1].stockInfo).stores[1].quantity > 0

====
